---- MODULE Spec2Model ----
(***************************************************************************)
(* Model of the NYC property dashboard (src/src/App.js, src/src/api.js):   *)
(* the App component's state, the data-loading effect with its per-effect  *)
(* cancel flag, and the AnimatedNumber slot of the "Total Sales" KPI card. *)
(*                                                                         *)
(* React scheduling as modelled: an event handler's setState is followed   *)
(* by a render that is committed; the passive effect of that render (and   *)
(* the cleanup of the previous one) is flushed as the next step, before    *)
(* any other event is handled.  The render between the two is a state of   *)
(* the model (effectPending = TRUE).                                       *)
(***************************************************************************)
EXTENDS Integers, Sequences, FiniteSets, TLC

(* ---------- bounds ---------- *)

MaxRequests == 3     \* effect runs (requests issued) per behaviour
MaxValue    == 12    \* largest value prop in the stand-alone AnimatedNumber run
MaxShort    == 3     \* longest row list with freely chosen fields
MaxRows     == 11    \* longest row list (more rows than the chart's 10)

(* ---------- program constants ---------- *)

WindowOrder  == <<12, 1, 3, 6>>                       \* buttons [1, 3, 6, 12]; 12 is the initial state
BoroughOrder == <<"All", "Manhattan", "Brooklyn", "Queens", "Bronx", "Staten Island">>

\* the buttons the model clicks: two of the four windows, and the all-boroughs
\* scope with two of the five boroughs
Windows  == {WindowOrder[1], WindowOrder[2]}
Boroughs == {BoroughOrder[1], BoroughOrder[2], BoroughOrder[3]}

WindowIndex(m) == CHOOSE i \in 1..Len(WindowOrder) : WindowOrder[i] = m

(* ---------- the data service ---------- *)

Missing == -1        \* an absent (undefined) numeric field of a row

\* x || 0 on a numeric-or-missing field
OrZero(x) == IF x = Missing THEN 0 ELSE x

\* The rows the service holds for a (months, borough) key.
ServerRows(m, b) ==
  IF b = "All"
    THEN << [label |-> <<"Manhattan", m>>, count |-> WindowIndex(m), median_value |-> 2],
            [label |-> <<"Brooklyn", m>>,  count |-> 1,              median_value |-> 1] >>
    ELSE << [label |-> <<b, m>>, count |-> WindowIndex(m), median_value |-> 1] >>

\* response.data of a resolved request: absent, an object without the
\* expected key (its rows are under another key), an empty collection, or
\* the rows.
NoRes == [defined |-> FALSE, key |-> FALSE, rows |-> << >>]

Responses(m, b) ==
  { NoRes,
    [defined |-> TRUE, key |-> FALSE, rows |-> ServerRows(m, b)],
    [defined |-> TRUE, key |-> TRUE,  rows |-> << >>],
    [defined |-> TRUE, key |-> TRUE,  rows |-> ServerRows(m, b)] }

\* a read of the rows that does not ask for the expected key
RowsOfAnyKey(res) == IF res.defined THEN res.rows ELSE << >>

\* res?.boroughs || []   /   res?.neighborhoods || []
RowsOf(res) == IF res.defined /\ res.key THEN res.rows ELSE << >>

(* ---------- state ---------- *)

VARIABLES
  salesData,         \* useState([])  borough-level rows
  neighborhoodData,  \* useState([])  neighborhood-level rows
  months,            \* useState(12)
  selectedBorough,   \* useState("All")
  loadingNYC,        \* useState(true)
  mounted,           \* the App component is mounted
  effectPending,     \* a render with changed [months, selectedBorough] is committed, its effect not yet run
  requests,          \* one record per run of the effect: its closure (cancel), its fetch, and
                     \* whether its continuation found cancel unset when it ran (applied)
  unhandled,         \* requests whose load() promise rejected with no handler attached
  slot,              \* the AnimatedNumber of the Total Sales card
  zeroStarts,        \* how many times that card started an animation 0 -> nonzero on a fresh mount
  view,              \* the derived values of a render (kpis, chartData, bars), recorded in
                     \* the runs of SpecMetrics
  reselected         \* the last event was a click on the button of the active value,
                     \* recorded in the runs of SpecCalls

vars == << salesData, neighborhoodData, months, selectedBorough, loadingNYC,
           mounted, effectPending, requests, unhandled, slot, zeroStarts,
           view, reselected >>

appVars == << salesData, neighborhoodData, months, selectedBorough, loadingNYC,
              mounted, effectPending, requests, unhandled, zeroStarts,
              view, reselected >>

(* ---------- derived render values ---------- *)

isAll(b) == b = "All"

\* const data = isAll ? salesData : neighborhoodData
Data(b, sales, neigh) == IF isAll(b) THEN sales ELSE neigh

\* a sum of r.count without the || 0
RECURSIVE SumCountRaw(_)
SumCountRaw(rows) ==
  IF rows = << >> THEN 0
  ELSE rows[1].count + SumCountRaw(Tail(rows))

RECURSIVE SumCount(_)
SumCount(rows) ==
  IF rows = << >> THEN 0
  ELSE OrZero(rows[1].count) + SumCount(Tail(rows))

\* kpis.totalSales
TotalSales(rows) == IF Len(rows) = 0 THEN 0 ELSE SumCount(rows)

\* !loadingNYC && data.length > 0
KpiVisible(loading, rows) == ~loading /\ Len(rows) > 0

(* ---------- metrics and chart ---------- *)

\* Math.round(a / b) for a >= 0, b > 0: the nearest integer, halves up
RoundDiv(a, b) == (2 * a + b) \div (2 * b)

\* (r.median_value || 0), (r.count || 0)
Key(r, f) == OrZero(r[f])

\* a place in the sorted list that puts a row before the earlier rows of equal key
RankUnstable(rows, f, i) ==
  1 + Cardinality({j \in 1..Len(rows) :
        \/ Key(rows[j], f) > Key(rows[i], f)
        \/ Key(rows[j], f) = Key(rows[i], f) /\ j > i})

\* the place of row i in the list sorted descending by f: after every row of
\* greater key and after the earlier rows of equal key (Array.prototype.sort
\* is stable)
Rank(rows, f, i) ==
  1 + Cardinality({j \in 1..Len(rows) :
        \/ Key(rows[j], f) > Key(rows[i], f)
        \/ Key(rows[j], f) = Key(rows[i], f) /\ j < i})

\* [...rows].sort((a, b) => (b[f] || 0) - (a[f] || 0))
SortDesc(rows, f) ==
  [k \in 1..Len(rows) |-> rows[CHOOSE i \in 1..Len(rows) : Rank(rows, f, i) = k]]

RECURSIVE SumMedian(_)
SumMedian(rows) ==
  IF rows = << >> THEN 0
  ELSE OrZero(rows[1].median_value) + SumMedian(Tail(rows))

\* a mean of the medians over the rows that have one
MedianSkipMissing(rows) ==
  LET n == Cardinality({i \in 1..Len(rows) : rows[i].median_value # Missing})
  IN  IF n = 0 THEN 0 ELSE RoundDiv(SumMedian(rows), n)

\* kpis.median: Math.round(sum of (r.median_value || 0) / data.length)
Median(rows) == RoundDiv(SumMedian(rows), Len(rows))

\* the summary of an empty list computed by the general branch (-2: NaN)
EmptyKpisUnguarded ==
  [totalSales |-> 0, median |-> -2, topLabel |-> "undefined", topValue |-> 0,
   topVolumeLabel |-> "undefined", topVolumeCount |-> 0]

\* the placeholder label of an empty summary (an em dash in the source)
Dash == "-"

\* the summary returned for !data || data.length === 0
EmptyKpis ==
  [totalSales |-> 0, median |-> 0, topLabel |-> Dash, topValue |-> 0,
   topVolumeLabel |-> Dash, topVolumeCount |-> 0]

\* kpis (useMemo); the label of a row is its borough in the all-boroughs
\* view and its neighborhood in a borough's view
Kpis(rows, all) ==
  IF Len(rows) = 0 THEN EmptyKpis
  ELSE LET sortedByMedian == SortDesc(rows, "median_value")
           sortedByCount  == SortDesc(rows, "count")
       IN  [totalSales     |-> SumCount(rows),
            median         |-> Median(rows),
            topLabel       |-> sortedByMedian[1].label,
            topValue       |-> OrZero(sortedByMedian[1].median_value),
            topVolumeLabel |-> sortedByCount[1].label,
            topVolumeCount |-> OrZero(sortedByCount[1].count)]

TopN == 10

\* xs.slice(0, n)
Slice(xs, n) == SubSeq(xs, 1, IF Len(xs) < n THEN Len(xs) ELSE n)

\* a chart that takes every row of a borough's view
ChartDataUncut(rows, all) ==
  IF all THEN rows ELSE SortDesc(rows, "median_value")

\* chartData: isAll ? data : [...data].sort(...).slice(0, 10)
ChartData(rows, all) ==
  IF all THEN rows
  ELSE Slice(SortDesc(rows, "median_value"), TopN)

\* the array held in state after the render: the sorts work on copies ([...data])
DataAfterRender(rows, all) == rows

\* Math.max(...xs) of a non-empty list
MaxOf(xs) == CHOOSE x \in {xs[i] : i \in 1..Len(xs)} : \A i \in 1..Len(xs) : xs[i] <= x

\* a bar length without the 4% floor
PctUnclamped(val, max) == IF max > 0 THEN RoundDiv(val * 100, max) ELSE 0

\* pct = max > 0 ? Math.max(4, Math.round((val / max) * 100)) : 0
Pct(val, max) ==
  IF max > 0
    THEN LET r == RoundDiv(val * 100, max) IN IF r < 4 THEN 4 ELSE r
    ELSE 0

\* BarChart with valueKey = "median_value": the bar lengths in percent, one
\* per row; no bars (null) for an empty collection
BarChart(rows) ==
  IF Len(rows) = 0 THEN << >>
  ELSE LET max == MaxOf([i \in 1..Len(rows) |-> OrZero(rows[i].median_value)])
       IN  [i \in 1..Len(rows) |-> Pct(OrZero(rows[i].median_value), max)]

\* what a render of App computes from its state
NoView == [rendered |-> FALSE, kpis |-> EmptyKpis, chartData |-> << >>,
           bars |-> << >>, dataAfter |-> << >>]

View(b, sales, neigh, loading) ==
  LET rows  == Data(b, sales, neigh)
      chart == ChartData(rows, isAll(b))
  IN  [rendered  |-> TRUE,
       kpis      |-> Kpis(rows, isAll(b)),
       chartData |-> chart,
       bars      |-> IF KpiVisible(loading, rows) THEN BarChart(chart) ELSE << >>,
       dataAfter |-> DataAfterRender(rows, isAll(b))]

(* ---------- AnimatedNumber ---------- *)

\* value: the prop of the last render; previous, hasAnimated: the ref and the
\* state of the component; number, goal: the spring's current value and its
\* target; interrupted: the goal last moved while the number was still on
\* its way to the goal before it
Unmounted == [mounted |-> FALSE, value |-> 0, previous |-> 0, hasAnimated |-> FALSE,
              number |-> 0, goal |-> 0, interrupted |-> FALSE]

\* useSpring({from, to, reset: true}): every update restarts from `from`
UseSpringReset(s, from, to, first) == [s EXCEPT !.number = from, !.goal = to]

\* useSpring({from, to, reset: false}): `from` is the start value of a new
\* spring only; an update keeps the current value and moves the goal.
UseSpring(s, from, to, first) ==
  IF first THEN [s EXCEPT !.number = from, !.goal = to]
           ELSE [s EXCEPT !.goal = to]

\* one render of AnimatedNumber followed by its effect
RenderOnce(s, v, first) ==
  LET fromValue == IF s.hasAnimated THEN s.previous ELSE 0
      sp        == UseSpring(s, fromValue, OrZero(v), first)
  IN  [sp EXCEPT !.mounted = TRUE, !.value = v, !.previous = OrZero(v),
                 !.hasAnimated = s.hasAnimated \/ OrZero(v) > 0,
                 !.interrupted = IF first THEN FALSE
                                 ELSE IF sp.goal # s.goal THEN s.number # s.goal
                                 ELSE s.interrupted]

\* a render, and the re-render that setHasAnimated(true) causes
RenderAnimated(s, v) ==
  LET first == ~s.mounted
      base  == IF first THEN Unmounted ELSE s
      r1    == RenderOnce(base, v, first)
  IN  IF r1.hasAnimated # base.hasAnimated THEN RenderOnce(r1, v, FALSE) ELSE r1

\* the KPI section: the card exists only while the section is rendered
RenderKpi(s, loading, rows) ==
  IF KpiVisible(loading, rows) THEN RenderAnimated(s, TotalSales(rows)) ELSE Unmounted

\* a fresh mount that starts an animation from 0 to a nonzero target
StartsFromZero(s, loading, rows) ==
  KpiVisible(loading, rows) /\ ~s.mounted /\ TotalSales(rows) > 0

(* ---------- the data-loading effect ---------- *)

\* a cleanup that forgets to set the flag
CleanupKeep(reqs) == reqs

\* return () => (cancel = true): the cleanup of the effect that ran last
Cleanup(reqs) ==
  IF reqs = << >> THEN reqs
  ELSE [reqs EXCEPT ![Len(reqs)].cancel = TRUE]

\* the rows written without looking at the cancel flag
SuccessRowsUngated(req, res, sales, neigh) ==
  IF req.borough = "All"
    THEN [sales |-> RowsOf(res), neigh |-> << >>]
    ELSE [sales |-> sales, neigh |-> RowsOf(res)]

\* the try block after the await: the rows written by a resolved request
SuccessRows(req, res, sales, neigh) ==
  IF req.cancel THEN [sales |-> sales, neigh |-> neigh]
  ELSE IF req.borough = "All"
    THEN [sales |-> RowsOf(res), neigh |-> << >>]
    ELSE [sales |-> sales, neigh |-> RowsOf(res)]

\* a failure path that wipes the rows
FailureRowsWiped(req, sales, neigh) ==
  IF req.cancel THEN [sales |-> sales, neigh |-> neigh]
  ELSE [sales |-> << >>, neigh |-> << >>]

\* the await throws: the rest of the try block is skipped
FailureRows(req, sales, neigh) == [sales |-> sales, neigh |-> neigh]

\* a finally clause without the cancel test
FinallyUngated(req, loading) == FALSE

\* a finally clause that never clears the flag
FinallyStuck(req, loading) == loading

\* finally { if (!cancel) setLoadingNYC(false) }
Finally(req, loading) == IF req.cancel THEN loading ELSE FALSE

\* load() has try/finally and no catch, and the effect calls load() without
\* a handler: the rejection of the fetch is the rejection of load()
Rejection(u, id) == u \cup {id}

Init ==
  /\ salesData = << >>
  /\ neighborhoodData = << >>
  /\ months = 12
  /\ selectedBorough = "All"
  /\ loadingNYC = TRUE
  /\ mounted = TRUE
  /\ effectPending = TRUE
  /\ requests = << >>
  /\ unhandled = {}
  /\ slot = Unmounted
  /\ zeroStarts = 0
  /\ view = NoView
  /\ reselected = FALSE

\* the render that follows a change of App state
Rerender ==
  LET rows == Data(selectedBorough', salesData', neighborhoodData')
  IN  IF mounted'
        THEN /\ slot' = RenderKpi(slot, loadingNYC', rows)
             /\ zeroStarts' = IF StartsFromZero(slot, loadingNYC', rows)
                                THEN zeroStarts + 1 ELSE zeroStarts
             /\ view' = view
        ELSE /\ slot' = Unmounted
             /\ zeroStarts' = zeroStarts
             /\ view' = view

\* onClick={() => setMonths(m)}: a re-selection of the active value is a
\* state update React bails out of
SetMonths(m) ==
  /\ mounted /\ ~effectPending
  /\ m # months => Len(requests) < MaxRequests
  /\ months' = m
  /\ effectPending' = (m # months)
  /\ reselected' = FALSE
  /\ UNCHANGED << salesData, neighborhoodData, selectedBorough, loadingNYC,
                  mounted, requests, unhandled >>
  /\ Rerender

\* handleBoroughClick(b): setSelectedBorough(b)
HandleBoroughClick(b) ==
  /\ mounted /\ ~effectPending
  /\ b # selectedBorough => Len(requests) < MaxRequests
  /\ selectedBorough' = b
  /\ effectPending' = (b # selectedBorough)
  /\ reselected' = FALSE
  /\ UNCHANGED << salesData, neighborhoodData, months, loadingNYC,
                  mounted, requests, unhandled >>
  /\ Rerender

\* the effect of [months, selectedBorough]: the previous effect's cleanup,
\* then cancel = false, load(): setLoadingNYC(true) and the fetch is issued
RunEffect ==
  /\ mounted /\ effectPending
  /\ requests' = Append(Cleanup(requests),
                        [months |-> months, borough |-> selectedBorough,
                         cancel |-> FALSE, status |-> "pending", res |-> NoRes,
                         applied |-> FALSE])
  /\ loadingNYC' = TRUE
  /\ effectPending' = FALSE
  /\ reselected' = FALSE
  /\ UNCHANGED << salesData, neighborhoodData, months, selectedBorough,
                  mounted, unhandled >>
  /\ Rerender

\* the awaited fetch of request id resolves with response res
Resolve(id, res) ==
  /\ ~effectPending
  /\ requests[id].status = "pending"
  /\ LET req  == requests[id]
         rows == SuccessRows(req, res, salesData, neighborhoodData)
     IN  /\ salesData' = rows.sales
         /\ neighborhoodData' = rows.neigh
         /\ loadingNYC' = Finally(req, loadingNYC)
  /\ requests' = [requests EXCEPT ![id].status = "ok", ![id].res = res,
                                  ![id].applied = ~requests[id].cancel]
  /\ reselected' = FALSE
  /\ UNCHANGED << months, selectedBorough, mounted, effectPending, unhandled >>
  /\ Rerender

\* the awaited fetch of request id rejects (network or server error)
Fail(id) ==
  /\ ~effectPending
  /\ requests[id].status = "pending"
  /\ LET req  == requests[id]
         rows == FailureRows(req, salesData, neighborhoodData)
     IN  /\ salesData' = rows.sales
         /\ neighborhoodData' = rows.neigh
         /\ loadingNYC' = Finally(req, loadingNYC)
  /\ requests' = [requests EXCEPT ![id].status = "failed",
                                  ![id].applied = ~requests[id].cancel]
  /\ unhandled' = Rejection(unhandled, id)
  /\ reselected' = FALSE
  /\ UNCHANGED << months, selectedBorough, mounted, effectPending >>
  /\ Rerender

\* the dashboard is unmounted: the cleanup of the last effect runs and the
\* cards go away
Unmount ==
  /\ mounted /\ ~effectPending
  /\ mounted' = FALSE
  /\ requests' = Cleanup(requests)
  /\ reselected' = FALSE
  /\ UNCHANGED << salesData, neighborhoodData, months, selectedBorough,
                  loadingNYC, effectPending, unhandled >>
  /\ Rerender

\* one animation frame of the card's spring: the number moves towards the goal
Frame ==
  /\ slot.mounted /\ slot.number # slot.goal
  /\ \E n \in 0..MaxValue :
       /\ \/ slot.number < n /\ n <= slot.goal
          \/ slot.goal <= n /\ n < slot.number
       /\ slot' = [slot EXCEPT !.number = n]

Tick ==
  /\ mounted /\ ~effectPending
  /\ Frame
  /\ reselected' = FALSE
  /\ UNCHANGED << salesData, neighborhoodData, months, selectedBorough, loadingNYC,
                  mounted, effectPending, requests, unhandled, zeroStarts, view >>

Next ==
  \/ \E m \in Windows : SetMonths(m)
  \/ \E b \in Boroughs : HandleBoroughClick(b)
  \/ RunEffect
  \/ \E id \in DOMAIN requests :
       \E res \in Responses(requests[id].months, requests[id].borough) : Resolve(id, res)
  \/ \E id \in DOMAIN requests : Fail(id)
  \/ Unmount
  \/ Tick

Spec == Init /\ [][Next]_vars

\* React flushes a committed render's effect; the request of the selection
\* that is current resolves or fails (the hypothesis of the loading-flag
\* liveness claim).  Superseded requests may hang for ever.
CurrentSettles ==
  /\ requests # << >>
  /\ \/ \E res \in Responses(requests[Len(requests)].months, requests[Len(requests)].borough) :
          Resolve(Len(requests), res)
     \/ Fail(Len(requests))

SpecLive == Spec /\ WF_vars(RunEffect) /\ WF_vars(CurrentSettles)

(* ---------- clicks on the active button, observed ---------- *)

\* setMonths(m) with m the active window: the handler runs, React bails out
\* of the state update, no render and no effect follow
ReselectMonths(m) ==
  /\ mounted /\ ~effectPending
  /\ m = months
  /\ months' = m
  /\ effectPending' = (m # months)
  /\ reselected' = TRUE
  /\ UNCHANGED << salesData, neighborhoodData, selectedBorough, loadingNYC,
                  mounted, requests, unhandled >>
  /\ Rerender

\* handleBoroughClick(b) with b the active scope
ReselectBorough(b) ==
  /\ mounted /\ ~effectPending
  /\ b = selectedBorough
  /\ selectedBorough' = b
  /\ effectPending' = (b # selectedBorough)
  /\ reselected' = TRUE
  /\ UNCHANGED << salesData, neighborhoodData, months, loadingNYC,
                  mounted, requests, unhandled >>
  /\ Rerender

NextCalls ==
  \/ Next
  \/ \E m \in Windows : ReselectMonths(m)
  \/ \E b \in Boroughs : ReselectBorough(b)

SpecCalls == Init /\ [][NextCalls]_vars

(* ---------- AnimatedNumber on its own ---------- *)

\* the values a parent passes as the value prop
Values == {Missing} \cup 0..MaxValue

\* the parent renders the component with value v (the first render mounts it)
AnimRender(v) ==
  /\ slot' = RenderAnimated(slot, v)
  /\ UNCHANGED appVars

AnimTick ==
  /\ Frame
  /\ UNCHANGED appVars

AnimUnmount ==
  /\ slot.mounted
  /\ slot' = Unmounted
  /\ UNCHANGED appVars

NextAnim ==
  \/ \E v \in Values : AnimRender(v)
  \/ AnimTick
  \/ AnimUnmount

SpecAnim == Init /\ [][NextAnim]_vars

(* ---------- the metrics of a render on their own ---------- *)

LabelNames == << "r1", "r2", "r3", "r4", "r5", "r6", "r7", "r8",
                 "r9", "r10", "r11", "r12", "r13", "r14", "r15", "r16" >>

\* the fields of the rows of a short list: missing, zero, equal and
\* different values, and a median far above the others
ShortCounts  == {Missing, 0, 1, 3}
ShortMedians == {Missing, 0, 1, 40}

\* row lists of length n in response order, the i-th row labelled
\* LabelNames[i]: short lists with any fields, longer lists with two medians
\* (ties on both)
ShortLists(n) ==
  { [i \in 1..n |-> [label |-> LabelNames[i], count |-> c[i], median_value |-> v[i]]] :
      c \in [1..n -> ShortCounts], v \in [1..n -> ShortMedians] }

LongLists(n) ==
  { [i \in 1..n |-> [label |-> LabelNames[i], count |-> 1, median_value |-> v[i]]] :
      v \in [1..n -> {1, 2}] }

RowLists(n) == IF n <= MaxShort THEN ShortLists(n) ELSE LongLists(n)

\* a mounted dashboard whose current request has loaded rows, not yet rendered
InitMetrics ==
  /\ \E n \in 0..MaxRows, b \in {"All", "Manhattan"} :
       \E rows \in RowLists(n) :
         /\ selectedBorough = b
         /\ salesData = IF isAll(b) THEN rows ELSE << >>
         /\ neighborhoodData = IF isAll(b) THEN << >> ELSE rows
  /\ months = 12
  /\ loadingNYC = FALSE
  /\ mounted = TRUE
  /\ effectPending = FALSE
  /\ requests = << >>
  /\ unhandled = {}
  /\ slot = Unmounted
  /\ zeroStarts = 0
  /\ view = NoView
  /\ reselected = FALSE

\* the render of App over these rows
MetricsRender ==
  /\ ~view.rendered
  /\ view' = View(selectedBorough, salesData, neighborhoodData, loadingNYC)
  /\ salesData' = IF isAll(selectedBorough) THEN view'.dataAfter ELSE salesData
  /\ neighborhoodData' = IF isAll(selectedBorough) THEN neighborhoodData ELSE view'.dataAfter
  /\ UNCHANGED << months, selectedBorough, loadingNYC, mounted, effectPending,
                  requests, unhandled, slot, zeroStarts, reselected >>

NextMetrics == MetricsRender

SpecMetrics == InitMetrics /\ [][NextMetrics]_vars

(* ---------- properties ---------- *)

Last == Len(requests)

\* the rows on display
Displayed == Data(selectedBorough, salesData, neighborhoodData)

\* request id settles (resolves or fails) in this step
Settles(id) == requests[id].status = "pending" /\ requests'[id].status # "pending"

RowsKept == salesData' = salesData /\ neighborhoodData' = neighborhoodData

\* C1: once the request of every selection has been issued and all issued
\* requests have resolved successfully, the rows on display are the response
\* to the last selection, whatever the order of the resolutions.
C1_LastSelectionWins ==
  (mounted /\ ~effectPending /\ \A i \in DOMAIN requests : requests[i].status = "ok")
    => /\ requests[Last].months = months
       /\ requests[Last].borough = selectedBorough
       /\ Displayed = RowsOf(requests[Last].res)
       /\ ~loadingNYC

\* three selections, the first two resolved after they were superseded, the
\* first with rows that are not the rows on display
C1_Witness ==
  /\ mounted /\ ~effectPending /\ Last = 3
  /\ \A i \in DOMAIN requests : requests[i].status = "ok"
  /\ ~requests[1].applied /\ ~requests[2].applied
  /\ RowsOf(requests[1].res) # << >>
  /\ Displayed # << >>
  /\ RowsOf(requests[1].res) # Displayed

\* C2: a response or a failure of a request that a newer request has
\* superseded changes neither row collection nor the loading flag.
C2_StaleDropped ==
  [][\A id \in DOMAIN requests :
       (Settles(id) /\ id < Last) => (RowsKept /\ loadingNYC' = loadingNYC)]_vars

\* a superseded request has settled with rows while the current one is
\* still loading
C2_Witness ==
  /\ mounted /\ Last >= 2
  /\ requests[Last].status = "pending" /\ loadingNYC
  /\ \E id \in 1..(Last - 1) :
       /\ requests[id].status = "ok" /\ ~requests[id].applied
       /\ RowsOf(requests[id].res) # << >>
  /\ \E id \in 1..(Last - 1) :
       requests[id].status = "failed" /\ ~requests[id].applied

\* C3: in no rendered state is the active selection's request unresolved
\* (not yet issued, or pending) while loading is false.
C3_LoadingWhileUnresolved ==
  (mounted /\ (effectPending \/ requests[Last].status = "pending")) => loadingNYC

\* C4: when the request of the current selection fails, both row
\* collections keep their values and loading becomes false.
C4_FailureKeepsRows ==
  [][\A id \in DOMAIN requests :
       (mounted /\ id = Last /\ Settles(id) /\ requests'[id].status = "failed")
         => (RowsKept /\ ~loadingNYC')]_vars

\* the current request failed after an earlier one had loaded rows: the
\* rows are still there and loading is off
C4_Witness ==
  /\ mounted /\ ~effectPending /\ Last >= 2
  /\ requests[Last].status = "failed" /\ requests[Last].applied
  /\ ~loadingNYC
  /\ salesData # << >>

\* C5: after a switch of scope has loaded, the row collection of the other
\* granularity is empty.
C5_OppositeCleared ==
  (mounted /\ ~effectPending /\ requests # << >> /\ requests[Last].status = "ok")
    => IF isAll(selectedBorough) THEN neighborhoodData = << >> ELSE salesData = << >>

\* C6: the card starts an animation from 0 to a nonzero target at most once.
C6_FromZeroOnce == zeroStarts <= 1

\* C7: while the component stays mounted the spring's goal is the latest
\* value, a render with a new value leaves the number on display where it
\* is, and every step leaves the number between where it was and the goal:
\* it never goes back to the previous start value or to 0, and it is at rest
\* only at the latest target.
C7_Retarget ==
  [][(slot.mounted /\ slot'.mounted) =>
       /\ slot'.goal = OrZero(slot'.value)
       /\ slot'.value # slot.value => slot'.number = slot.number
       /\ \/ slot.number <= slot'.number /\ slot'.number <= slot'.goal
          \/ slot'.goal <= slot'.number /\ slot'.number <= slot.number]_vars

\* the target moved while the number was on its way (neither at 0 nor at
\* the target before), and the number has come to rest at the new target
C7_Witness ==
  /\ slot.mounted /\ slot.interrupted
  /\ slot.goal > 0 /\ slot.number = slot.goal

\* C8: after the dashboard is unmounted no settling request changes the row
\* collections or the loading flag.
C8_NoApplyAfterUnmount ==
  [][\A id \in DOMAIN requests :
       (~mounted /\ Settles(id)) => (RowsKept /\ loadingNYC' = loadingNYC)]_vars

\* the request that was current at unmount resolved afterwards with rows and
\* was dropped
C8_Witness ==
  /\ ~mounted /\ requests # << >>
  /\ requests[Last].status = "ok" /\ ~requests[Last].applied
  /\ RowsOf(requests[Last].res) # << >>
  /\ loadingNYC

\* C9: when the selections stop and the request of the last one settles,
\* loading becomes false and stays false; loading goes from true to false
\* only in a step in which the current request settles, never by a request
\* being superseded.
C9_LoadingSettles ==
  /\ <>[](mounted => ~loadingNYC)
  /\ [][(loadingNYC /\ ~loadingNYC') => (requests # << >> /\ Settles(Last))]_vars

\* loading is off after the current request failed while a superseded
\* request is still hanging
C9_Witness ==
  /\ mounted /\ ~effectPending /\ ~loadingNYC /\ Last >= 2
  /\ requests[Last].status = "failed"
  /\ \E id \in 1..(Last - 1) : requests[id].status = "pending"

\* C10: no failure of a request leaves load() as an unhandled rejection.
C10_NoUnhandledRejection == unhandled = {}

(* ---------- properties of the metrics of a render ---------- *)

\* the rows the summary and the chart are computed from
MedianOf(i) == OrZero(Displayed[i].median_value)
CountOf(i)  == OrZero(Displayed[i].count)
Rendered    == view.rendered /\ Len(Displayed) > 0

\* C11: of a non-empty list, topLabel/topValue are the label and the median
\* of the first row in input order among those of largest median, and
\* topVolumeLabel/topVolumeCount likewise for the count (missing as 0).
C11_TopFirstMax ==
  Rendered =>
    /\ \E i \in 1..Len(Displayed) :
         /\ \A j \in 1..Len(Displayed) : MedianOf(j) <= MedianOf(i)
         /\ \A j \in 1..(i - 1) : MedianOf(j) < MedianOf(i)
         /\ view.kpis.topLabel = Displayed[i].label
         /\ view.kpis.topValue = MedianOf(i)
    /\ \E i \in 1..Len(Displayed) :
         /\ \A j \in 1..Len(Displayed) : CountOf(j) <= CountOf(i)
         /\ \A j \in 1..(i - 1) : CountOf(j) < CountOf(i)
         /\ view.kpis.topVolumeLabel = Displayed[i].label
         /\ view.kpis.topVolumeCount = CountOf(i)

\* rows 1 and 2 tie on the largest median and row 2 has the larger count:
\* the top by value is row 1, the top by volume row 2
C11_Witness ==
  /\ view.rendered /\ Len(Displayed) >= 2
  /\ MedianOf(1) = MedianOf(2) /\ MedianOf(1) > 0 /\ CountOf(1) < CountOf(2)
  /\ view.kpis.topLabel = "r1" /\ view.kpis.topVolumeLabel = "r2"

\* C12 as claimed: the median KPI is exactly the sum of the medians
\* (missing as 0) divided by the number of rows.
C12_ExactMean ==
  Rendered => view.kpis.median * Len(Displayed) = SumMedian(Displayed)

\* C12 as amended: the median KPI is that mean rounded to the nearest
\* integer, a half rounded up; rows without a median count in the divisor.
C12_RoundedMean ==
  Rendered =>
    LET n == Len(Displayed)
        m == view.kpis.median
    IN  /\ 2 * n * m - n <= 2 * SumMedian(Displayed)
        /\ 2 * SumMedian(Displayed) < 2 * n * m + n

\* three rows, one without a median, whose mean is not an integer
C12_Witness ==
  /\ view.rendered /\ Len(Displayed) = 3
  /\ \E i \in 1..3 : Displayed[i].median_value = Missing
  /\ view.kpis.median * 3 # SumMedian(Displayed)
  /\ view.kpis.median > 0

\* C13: the summary of an empty list is 0, 0, the placeholder label with 0,
\* and the placeholder label with 0; it is computed without an error.
C13_EmptySummary ==
  (view.rendered /\ Len(Displayed) = 0) =>
    /\ view.kpis.totalSales = 0
    /\ view.kpis.median = 0
    /\ view.kpis.topLabel = "-" /\ view.kpis.topValue = 0
    /\ view.kpis.topVolumeLabel = "-" /\ view.kpis.topVolumeCount = 0

C13_Witness ==
  /\ view.rendered /\ Len(Displayed) = 0
  /\ selectedBorough = "Manhattan" /\ ~loadingNYC

\* the place in the input of a row of the chart (labels are the places)
PlaceOf(r) == CHOOSE i \in 1..Len(Displayed) : Displayed[i] = r

\* row a comes before row b in the descending stable order
Before(a, b) ==
  \/ OrZero(a.median_value) > OrZero(b.median_value)
  \/ OrZero(a.median_value) = OrZero(b.median_value) /\ PlaceOf(a) < PlaceOf(b)

\* C14: in a borough's view the chart rows are the first min(n, 10) rows of
\* the input in descending order of median, ties in input order; in the
\* all-boroughs view they are the input; the input itself keeps its order.
C14_ChartRows ==
  view.rendered =>
    LET rows  == Displayed
        chart == view.chartData
        inChart(r) == \E k \in 1..Len(chart) : chart[k] = r
    IN  /\ \A i \in 1..Len(rows) : rows[i].label = LabelNames[i]
        /\ IF isAll(selectedBorough) THEN chart = rows
           ELSE /\ Len(chart) = (IF Len(rows) < 10 THEN Len(rows) ELSE 10)
                /\ \A k \in 1..Len(chart) : \E i \in 1..Len(rows) : rows[i] = chart[k]
                /\ \A j, k \in 1..Len(chart) : j < k => Before(chart[j], chart[k])
                /\ \A i \in 1..Len(rows) :
                     ~inChart(rows[i]) => \A k \in 1..Len(chart) : Before(chart[k], rows[i])

\* eleven neighborhood rows, the first of the smaller median, rows 2 and 5
\* tied on the larger: the chart has ten rows and starts with rows 2 and 5
C14_Witness ==
  /\ view.rendered /\ ~isAll(selectedBorough) /\ Len(Displayed) = 11
  /\ MedianOf(1) = 1 /\ MedianOf(2) = 2 /\ MedianOf(3) = 1 /\ MedianOf(4) = 1 /\ MedianOf(5) = 2
  /\ Len(view.chartData) = 10
  /\ view.chartData[1].label = "r2" /\ view.chartData[2].label = "r5"

\* C15: with a largest value max > 0 every bar is max(4, round(value / max *
\* 100)): between 4 and 100, 100 for a row of the largest value; with max = 0
\* every bar is 0; an empty collection has no bars.
C15_BarLengths ==
  view.rendered =>
    LET chart == view.chartData
        bars  == view.bars
        val(i) == OrZero(chart[i].median_value)
    IN  IF Len(chart) = 0 THEN bars = << >>
        ELSE /\ Len(bars) = Len(chart)
             /\ \E h \in 1..Len(chart) :
                  /\ \A i \in 1..Len(chart) : val(i) <= val(h)
                  /\ \A i \in 1..Len(chart) :
                       IF val(h) = 0 THEN bars[i] = 0
                       ELSE /\ bars[i] >= 4 /\ bars[i] <= 100
                            /\ val(i) = val(h) => bars[i] = 100
                            /\ 200 * val(i) < 2 * val(h) * bars[i] + val(h)
                            /\ bars[i] > 4 => 2 * val(h) * bars[i] - val(h) <= 200 * val(i)

\* a bar of 100 next to a bar that the floor of 4 lifts (1/40 rounds to 3)
C15_Witness ==
  /\ view.rendered /\ Len(view.bars) >= 2
  /\ \E i, j \in 1..Len(view.bars) :
       /\ view.bars[i] = 100
       /\ view.bars[j] = 4 /\ OrZero(view.chartData[j].median_value) = 1

\* the sum of the counts, grouped by value
RECURSIVE CountSum(_, _)
CountSum(rows, vals) ==
  IF vals = {} THEN 0
  ELSE LET v == CHOOSE x \in vals : TRUE
       IN  v * Cardinality({i \in 1..Len(rows) : rows[i].count = v})
             + CountSum(rows, vals \ {v})

\* C16: totalSales is the sum of count over the rows, a missing count as 0,
\* for every list of rows with numeric or missing fields.
C16_TotalIsSum ==
  view.rendered =>
    view.kpis.totalSales =
      CountSum(Displayed, {Displayed[i].count : i \in 1..Len(Displayed)} \ {Missing})

\* rows with a missing count, a count of 1 and a count of 3
C16_Witness ==
  /\ view.rendered /\ Len(Displayed) = 3
  /\ Displayed[1].count = Missing /\ Displayed[2].count = 1 /\ Displayed[3].count = 3
  /\ view.kpis.totalSales = 4

(* ---------- properties of the coordinator, continued ---------- *)

\* C17: a successful current response that is absent or lacks the expected
\* key is applied as an empty collection, as an explicit empty one is, and
\* raises nothing.
C17_MissingKeyIsEmpty ==
  [][\A id \in DOMAIN requests :
       (/\ mounted /\ id = Last /\ Settles(id)
        /\ requests'[id].status = "ok"
        /\ ~(requests'[id].res.defined /\ requests'[id].res.key))
       => /\ IF requests[id].borough = "All"
               THEN salesData' = << >> /\ neighborhoodData' = << >>
               ELSE neighborhoodData' = << >> /\ salesData' = salesData
          /\ ~loadingNYC'
          /\ unhandled' = unhandled]_vars

\* the current response came without the expected key, its rows under
\* another: nothing is on display and loading is off
C17_Witness ==
  /\ mounted /\ ~effectPending /\ requests # << >>
  /\ requests[Last].status = "ok" /\ requests[Last].applied
  /\ requests[Last].res.defined /\ ~requests[Last].res.key
  /\ requests[Last].res.rows # << >>
  /\ Displayed = << >> /\ ~loadingNYC

\* C18: whenever rows are on display (loading off, the active collection
\* not empty) they are the response fetched for the active selection.
C18_ViewCoherent ==
  (mounted /\ ~loadingNYC /\ Displayed # << >>) =>
    \E id \in DOMAIN requests :
      /\ requests[id].months = months /\ requests[id].borough = selectedBorough
      /\ requests[id].status = "ok" /\ requests[id].applied
      /\ Displayed = RowsOf(requests[id].res)

\* the requests whose cancel flag is unset
Current == {id \in DOMAIN requests : ~requests[id].cancel}

\* C19 as claimed: at most one request is current, and a selection call
\* that re-selects the active value is followed by a request as well.
C19_EveryCallIssues ==
  /\ Cardinality(Current) <= 1
  /\ reselected => effectPending

\* C19 as amended: a call that changes the selection is followed by exactly
\* one request, keyed by the new selection, whose issue supersedes every
\* earlier request; at most one request is current; a call that re-selects
\* the active value issues nothing and supersedes nothing.
C19_ChangingCallIssues ==
  /\ [](Cardinality(Current) <= 1 /\ (Current # {} => Current = {Last}))
  /\ [][(months' # months \/ selectedBorough' # selectedBorough)
          => (effectPending' /\ requests' = requests)]_vars
  /\ [][requests' # requests /\ Len(requests') # Len(requests)
          => /\ effectPending /\ ~effectPending'
             /\ Len(requests') = Len(requests) + 1
             /\ requests'[Len(requests')].months = months
             /\ requests'[Len(requests')].borough = selectedBorough
             /\ requests'[Len(requests')].status = "pending"
             /\ Current' = {Len(requests')}]_vars
  /\ [][reselected' => (requests' = requests /\ ~effectPending')]_vars

\* the active button was clicked while the second request was pending: that
\* request is still the only current one
C19_Witness ==
  /\ reselected /\ mounted /\ ~effectPending /\ Last = 2
  /\ requests[Last].status = "pending"
  /\ Current = {Last}

\* the generation counter of the token scheme: one step at mount, at every
\* change of the selection and at teardown; request id carries token id
Generation ==
  Len(requests) + (IF effectPending THEN 1 ELSE 0) + (IF mounted THEN 0 ELSE 1)

\* C20: the counter never decreases, and a settling request is applied by
\* the cancel flag exactly when its token equals the counter; the rows and
\* the loading flag are then those the token scheme yields.
C20_CancelRefinesGeneration ==
  /\ [][Generation' >= Generation]_vars
  /\ [][\A id \in DOMAIN requests :
          Settles(id) =>
            LET fresh == (id = Generation)
                ok    == requests'[id].status = "ok"
                rows  == IF requests'[id].res.defined /\ requests'[id].res.key
                           THEN requests'[id].res.rows ELSE << >>
            IN  /\ requests'[id].applied = fresh
                /\ loadingNYC' = (IF fresh THEN FALSE ELSE loadingNYC)
                /\ salesData' = (IF fresh /\ ok /\ requests[id].borough = "All"
                                   THEN rows ELSE salesData)
                /\ neighborhoodData' =
                     (IF fresh /\ ok
                        THEN (IF requests[id].borough = "All" THEN << >> ELSE rows)
                        ELSE neighborhoodData)]_vars

\* one request dropped with rows as its token was behind the counter, the
\* next applied with rows
C20_Witness ==
  /\ mounted /\ ~effectPending /\ Last >= 2
  /\ requests[Last].status = "ok" /\ requests[Last].applied
  /\ RowsOf(requests[Last].res) # << >>
  /\ \E id \in 1..(Last - 1) :
       /\ requests[id].status = "ok" /\ ~requests[id].applied
       /\ RowsOf(requests[id].res) # << >>

====
